---------------------------- MODULE Spec2Model ----------------------------
(***************************************************************************)
(* Punjab stubble-burning dashboard: the filtering and aggregation engine  *)
(* (data_processor.py, visualization.py) and the containment test          *)
(* (map_handler.py).                                                       *)
(*                                                                         *)
(* A DataFrame is a sequence of rows in row order; a row is a record of    *)
(* the columns the engine reads.  A dict and a grouped table are sequences *)
(* in iteration / row order, so that "first maximum" is observable.        *)
(***************************************************************************)
EXTENDS Integers, Sequences, FiniteSets

VARIABLES
    fire_events_df,      \* the DataFrame handed to filter_data
    selected_districts,  \* filter_data's selected_districts argument
    selected_years,      \* filter_data's selected_years argument
    filtered_data,       \* filter_data's result; the input of the aggregates
    district_chart,      \* the table create_district_bar_chart plots
    stats,               \* the dict get_stats returns
    yearly_data,         \* the table get_yearly_data returns
    monthly_data,        \* the table get_monthly_data returns
    point,               \* point_in_polygon's point argument, <<x, y>>
    polygon,             \* point_in_polygon's polygon argument, a ring
    pip,                 \* point_in_polygon's outcome
    geojson_file,        \* the boundary source load_geojson reads
    csv_file,            \* the event source load_fire_events reads
    geojson_data,        \* the FeatureCollection load_geojson returns, or None
    districts_dict,      \* the dict load_geojson returns, as its items in order
    map_clicked,         \* st.session_state.map_clicked
    clicked_district,    \* st.session_state.clicked_district
    last_clicked,        \* map_data["last_clicked"] as the map component reports it
    map_fire_data,       \* the frame render_map plots as fire markers
    map_bounds,          \* the box zoom_to_districts hands to fit_bounds
    run,                 \* how the last run of main ended
    pc                   \* position in the run

vars == <<fire_events_df, selected_districts, selected_years, filtered_data,
          district_chart, stats, yearly_data, monthly_data,
          point, polygon, pip, geojson_file, csv_file, geojson_data,
          districts_dict, map_clicked, clicked_district, last_clicked,
          map_fire_data, map_bounds, run, pc>>

\* the state of the dashboard run, which the runs of a single function of
\* the engine neither read nor write
app_vars == <<geojson_file, csv_file, geojson_data, districts_dict,
              map_clicked, clicked_district, last_clicked,
              map_fire_data, map_bounds, run>>

(***************************************************************************)
(* Bounds and input universes.                                             *)
(***************************************************************************)
MaxEvents == 3

MaxRingLen == 4

\* district names, in the ascending order Python compares the strings
DistrictOrder == <<"Amritsar", "Ludhiana", "Unknown">>

Districts == {DistrictOrder[i] : i \in DOMAIN DistrictOrder}

Years == {2021, 2022}

Months == {10, 11}

\* the value of a variable no step has assigned yet
Unset == "unset"

AppVarsUnset ==
    /\ geojson_file = Unset
    /\ csv_file = Unset
    /\ geojson_data = Unset
    /\ districts_dict = Unset
    /\ map_clicked = Unset
    /\ clicked_district = Unset
    /\ last_clicked = Unset
    /\ map_fire_data = Unset
    /\ map_bounds = Unset
    /\ run = Unset

\* strftime('%b') of a date whose month is m
MonthName(m) ==
    CASE m = 1 -> "Jan" [] m = 2 -> "Feb" [] m = 3 -> "Mar" [] m = 4 -> "Apr"
      [] m = 5 -> "May" [] m = 6 -> "Jun" [] m = 7 -> "Jul" [] m = 8 -> "Aug"
      [] m = 9 -> "Sep" [] m = 10 -> "Oct" [] m = 11 -> "Nov" [] m = 12 -> "Dec"

\* a row as load_fire_events leaves it: district filled, year / month /
\* month_name derived from the parsed date
EventRows ==
    {[district |-> d, year |-> y, month |-> m, month_name |-> MonthName(m)] :
        d \in Districts, y \in Years, m \in Months}

SeqsUpTo(S, n) == UNION {[1..k -> S] : k \in 0..n}

\* a selection argument of filter_data: None, or a list, of which isin and
\* len read only the set of its items
NoneSel == [is_none |-> TRUE, items |-> {}]

ListOf(S) == [is_none |-> FALSE, items |-> S]

Selections(S) == {NoneSel} \cup {ListOf(T) : T \in SUBSET S}

(***************************************************************************)
(* data_processor.filter_data                                              *)
(***************************************************************************)
\* `selected and len(selected) > 0`
Truthy(selected) == ~selected.is_none /\ selected.items # {}

filter_data_conj_mut(df, sel_districts, sel_years) ==
    IF Truthy(sel_districts) /\ Truthy(sel_years)
    THEN SelectSeq(df, LAMBDA r : r.district \in sel_districts.items \/ r.year \in sel_years.items)
    ELSE IF Truthy(sel_districts)
    THEN SelectSeq(df, LAMBDA r : r.district \in sel_districts.items)
    ELSE IF Truthy(sel_years)
    THEN SelectSeq(df, LAMBDA r : r.year \in sel_years.items)
    ELSE df

filter_data_empty_mut(df, sel_districts, sel_years) ==
    LET by_district == IF ~sel_districts.is_none
                       THEN SelectSeq(df, LAMBDA r : r.district \in sel_districts.items)
                       ELSE df
    IN  IF ~sel_years.is_none
        THEN SelectSeq(by_district, LAMBDA r : r.year \in sel_years.items)
        ELSE by_district

filter_data_year_mut(df, sel_districts, sel_years) ==
    LET by_district == IF Truthy(sel_districts)
                       THEN SelectSeq(df, LAMBDA r : r.district \in sel_districts.items)
                       ELSE df
    IN  IF Truthy(sel_districts) /\ Truthy(sel_years)
        THEN SelectSeq(by_district, LAMBDA r : r.year \in sel_years.items)
        ELSE by_district

filter_data(df, sel_districts, sel_years) ==
    LET by_district == IF Truthy(sel_districts)
                       THEN SelectSeq(df, LAMBDA r : r.district \in sel_districts.items)
                       ELSE df
    IN  IF Truthy(sel_years)
        THEN SelectSeq(by_district, LAMBDA r : r.year \in sel_years.items)
        ELSE by_district

(***************************************************************************)
(* The filter run: filter_data applied to one DataFrame and one selection. *)
(***************************************************************************)
InitFilter ==
    /\ AppVarsUnset
    /\ fire_events_df \in SeqsUpTo(EventRows, MaxEvents)
    /\ selected_districts \in Selections(Districts)
    /\ selected_years \in Selections(Years)
    /\ filtered_data = Unset
    /\ district_chart = Unset
    /\ stats = Unset
    /\ yearly_data = Unset
    /\ monthly_data = Unset
    /\ point = Unset
    /\ polygon = Unset
    /\ pip = Unset
    /\ pc = "filter"

FilterData ==
    /\ pc = "filter"
    /\ filtered_data' = filter_data(fire_events_df, selected_districts, selected_years)
    /\ pc' = "filtered"
    /\ UNCHANGED app_vars
    /\ UNCHANGED <<fire_events_df, selected_districts, selected_years,
                   district_chart, stats, yearly_data, monthly_data,
                   point, polygon, pip>>

NextFilter == FilterData

SpecFilter == InitFilter /\ [][NextFilter]_vars

(***************************************************************************)
(* Claims about filter_data, checked under SpecFilter.                     *)
(***************************************************************************)
\* out is exactly the rows of df that satisfy Keep, each once, in row order:
\* the kept row at index i of df sits in out at the number of kept rows at
\* or before i
IsSelectionOf(out, df, Keep(_)) ==
    LET kept == {i \in DOMAIN df : Keep(df[i])}
    IN  /\ DOMAIN out = 1..Cardinality(kept)
        /\ \A i \in kept : out[Cardinality({j \in kept : j <= i})] = df[i]

\* C1: with an empty district selection and an empty year selection (the
\* empty list or None for each) filter_data returns every row of its input,
\* with the same multiplicity and in the original order.
C1_FilterIdentity ==
    (pc = "filtered" /\ ~Truthy(selected_districts) /\ ~Truthy(selected_years))
        => filtered_data = fire_events_df

C1_Witness ==
    /\ pc = "filtered"
    /\ selected_districts = NoneSel
    /\ selected_years = ListOf({})
    /\ Len(fire_events_df) = 2
    /\ fire_events_df[1] # fire_events_df[2]
    /\ filtered_data = fire_events_df

\* C2: with both selections non-empty filter_data returns exactly the rows
\* whose district is selected AND whose year is selected: every returned row
\* satisfies both, and no row satisfying both is omitted.
C2_FilterConjunction ==
    (pc = "filtered" /\ Truthy(selected_districts) /\ Truthy(selected_years))
        => IsSelectionOf(filtered_data, fire_events_df,
                         LAMBDA r : /\ r.district \in selected_districts.items
                                    /\ r.year \in selected_years.items)

C2_Witness ==
    /\ pc = "filtered"
    /\ Truthy(selected_districts) /\ Truthy(selected_years)
    /\ Len(fire_events_df) = 2
    /\ fire_events_df[1].district \in selected_districts.items
    /\ fire_events_df[1].year \notin selected_years.items
    /\ fire_events_df[2].district \in selected_districts.items
    /\ fire_events_df[2].year \in selected_years.items
    /\ filtered_data = <<fire_events_df[2]>>

\* C3: an empty selection on one dimension imposes no constraint on it: with
\* districts non-empty and years empty the result is exactly the rows whose
\* district is selected, with years non-empty and districts empty exactly
\* the rows whose year is selected.
C3_EmptyDimensionPassThrough ==
    /\ (pc = "filtered" /\ Truthy(selected_districts) /\ ~Truthy(selected_years))
          => IsSelectionOf(filtered_data, fire_events_df,
                           LAMBDA r : r.district \in selected_districts.items)
    /\ (pc = "filtered" /\ ~Truthy(selected_districts) /\ Truthy(selected_years))
          => IsSelectionOf(filtered_data, fire_events_df,
                           LAMBDA r : r.year \in selected_years.items)

C3_Witness ==
    /\ pc = "filtered"
    /\ selected_districts = ListOf({"Amritsar"})
    /\ ~Truthy(selected_years)
    /\ Len(fire_events_df) = 2
    /\ fire_events_df[1].district = "Amritsar"
    /\ fire_events_df[2].district = "Amritsar"
    /\ fire_events_df[1].year # fire_events_df[2].year
    /\ Len(filtered_data) = 2

(***************************************************************************)
(* pandas and Python primitives the aggregates are built from.             *)
(***************************************************************************)
\* Python's None as the value of an optional string argument
None == "<None>"

\* the keys of a group-by on an integer column, ascending (groupby sorts)
RECURSIVE SortAsc(_)
SortAsc(S) ==
    IF S = {} THEN <<>>
    ELSE LET m == CHOOSE x \in S : \A y \in S : x <= y
         IN  <<m>> \o SortAsc(S \ {m})

\* the district names of S, ascending as Python compares the strings
SortDistricts(S) ==
    SelectSeq(DistrictOrder, LAMBDA d : d \in S)

\* df.groupby('year').size(): one entry per year present, ascending by year
groupby_year_size(df) ==
    LET keys == SortAsc({df[i].year : i \in DOMAIN df})
    IN  [k \in DOMAIN keys |->
            [year |-> keys[k],
             count |-> Cardinality({i \in DOMAIN df : df[i].year = keys[k]})]]

\* df.groupby(['month', 'month_name']).size().reset_index(name='count'): one
\* row per (month, month_name) pair present, ascending by the pair.  A month
\* has one month_name (both are derived from the same date), so the pairs
\* are ordered by their month.
groupby_month_size(df) ==
    LET pairs == {<<df[i].month, df[i].month_name>> : i \in DOMAIN df}
        keys == SortAsc({p[1] : p \in pairs})
    IN  [k \in DOMAIN keys |->
            LET name == (CHOOSE p \in pairs : p[1] = keys[k])[2]
            IN  [month |-> keys[k], month_name |-> name,
                 count |-> Cardinality({i \in DOMAIN df :
                              df[i].month = keys[k] /\ df[i].month_name = name})]]

groupby_district_size_dropna_mut(df) ==
    LET keys == SortDistricts({df[i].district : i \in DOMAIN df} \ {"Unknown"})
    IN  [k \in DOMAIN keys |->
            [district |-> keys[k],
             count |-> Cardinality({i \in DOMAIN df : df[i].district = keys[k]})]]

\* df.groupby('district').size().reset_index(name='count'): one row per
\* district present, ascending by district name
groupby_district_size(df) ==
    LET keys == SortDistricts({df[i].district : i \in DOMAIN df})
    IN  [k \in DOMAIN keys |->
            [district |-> keys[k],
             count |-> Cardinality({i \in DOMAIN df : df[i].district = keys[k]})]]

\* the scan of max(iterable, key=...) and of Series.idxmax(): the position
\* of the first element whose count no other exceeds
RECURSIVE ScanMax(_, _, _)
ScanMax(rows, k, best) ==
    IF k > Len(rows) THEN best
    ELSE ScanMax(rows, k + 1, IF rows[k].count > rows[best].count THEN k ELSE best)

RECURSIVE ScanMaxLast(_, _, _)
ScanMaxLast(rows, k, best) ==
    IF k > Len(rows) THEN best
    ELSE ScanMaxLast(rows, k + 1, IF rows[k].count >= rows[best].count THEN k ELSE best)

py_max_last_mut(items) == ScanMaxLast(items, 2, 1)

\* max(yearly_counts.items(), key=lambda x: x[1]): the index of the item
\* max returns
py_max(items) == ScanMax(items, 2, 1)

idxmax_last_mut(rows) == ScanMaxLast(rows, 2, 1)

\* monthly_counts['count'].idxmax(): the label of the first row holding the
\* maximum (the rows are labelled 1..n by reset_index)
idxmax(rows) == ScanMax(rows, 2, 1)

Permutations(n) == {p \in [1..n -> 1..n] : \A a, b \in 1..n : p[a] = p[b] => a = b}

sort_values_count_asc_mut(rows) ==
    {t \in {[k \in DOMAIN rows |-> rows[p[k]]] : p \in Permutations(Len(rows))} :
        \A a, b \in DOMAIN t : a < b => t[a].count <= t[b].count}

\* rows.sort_values('count', ascending=False), kind left at its default
\* 'quicksort', which is not a stable sort: the outcomes are the orderings of
\* the rows with non-increasing count; rows of equal count may come out in
\* either order
sort_values_count_desc(rows) ==
    {t \in {[k \in DOMAIN rows |-> rows[p[k]]] : p \in Permutations(Len(rows))} :
        \A a, b \in DOMAIN t : a < b => t[a].count >= t[b].count}

\* rows.sort_values('year') of a table with one row per year
sort_values_year(rows) ==
    LET keys == SortAsc({rows[k].year : k \in DOMAIN rows})
    IN  [k \in DOMAIN keys |-> CHOOSE r \in {rows[j] : j \in DOMAIN rows} : r.year = keys[k]]

\* rows.sort_values('month') of a table with one row per month
sort_values_month(rows) ==
    LET keys == SortAsc({rows[k].month : k \in DOMAIN rows})
    IN  [k \in DOMAIN keys |-> CHOOSE r \in {rows[j] : j \in DOMAIN rows} : r.month = keys[k]]

(***************************************************************************)
(* data_processor.get_stats, get_yearly_data, get_monthly_data and         *)
(* visualization.create_district_bar_chart                                 *)
(***************************************************************************)
get_stats_groups_mut(df, district) ==
    LET yearly_counts == groupby_year_size(df)
        monthly_counts == groupby_month_size(df)
    IN  [total_events |-> Len(yearly_counts),
         yearly_counts |-> yearly_counts,
         monthly_counts |-> monthly_counts,
         peak_month |-> IF monthly_counts # <<>>
                        THEN monthly_counts[idxmax(monthly_counts)].month_name
                        ELSE "N/A",
         peak_year |-> IF yearly_counts # <<>>
                       THEN yearly_counts[py_max(yearly_counts)].year
                       ELSE "N/A"]

get_stats_no_sentinel_mut(df, district) ==
    LET yearly_counts == groupby_year_size(df)
        monthly_counts == groupby_month_size(df)
    IN  [total_events |-> Len(df),
         yearly_counts |-> yearly_counts,
         monthly_counts |-> monthly_counts,
         peak_month |-> IF monthly_counts # <<>>
                        THEN monthly_counts[idxmax(monthly_counts)].month_name
                        ELSE "N/A",
         peak_year |-> IF yearly_counts # <<>>
                       THEN yearly_counts[py_max(yearly_counts)].year
                       ELSE None]

get_stats(df, district) ==
    LET filtered_df == IF district \notin {None, ""}
                       THEN SelectSeq(df, LAMBDA r : r.district = district)
                       ELSE df
        total_events == Len(filtered_df)
        yearly_counts == groupby_year_size(filtered_df)
        monthly_counts == groupby_month_size(filtered_df)
    IN  [total_events |-> total_events,
         yearly_counts |-> yearly_counts,
         monthly_counts |-> monthly_counts,
         peak_month |-> IF monthly_counts # <<>>
                        THEN monthly_counts[idxmax(monthly_counts)].month_name
                        ELSE "N/A",
         peak_year |-> IF yearly_counts # <<>>
                       THEN yearly_counts[py_max(yearly_counts)].year
                       ELSE "N/A"]

get_yearly_data(df) == sort_values_year(groupby_year_size(df))

get_monthly_data(df) == sort_values_month(groupby_month_size(df))

\* the tables create_district_bar_chart may plot: none for an empty frame
\* (the empty chart), else the district counts sorted by count, descending
create_district_bar_chart(df) ==
    IF df = <<>> THEN {<<>>}
    ELSE sort_values_count_desc(groupby_district_size(df))

(***************************************************************************)
(* The aggregation pass of main over one filtered frame: the district      *)
(* chart, the statistics, the yearly and the monthly table, in main's      *)
(* order.                                                                  *)
(***************************************************************************)
InitAggregate ==
    /\ AppVarsUnset
    /\ filtered_data \in SeqsUpTo(EventRows, MaxEvents)
    /\ fire_events_df = Unset
    /\ selected_districts = Unset
    /\ selected_years = Unset
    /\ district_chart = Unset
    /\ stats = Unset
    /\ yearly_data = Unset
    /\ monthly_data = Unset
    /\ point = Unset
    /\ polygon = Unset
    /\ pip = Unset
    /\ pc = "district_chart"

CreateDistrictBarChart ==
    /\ pc = "district_chart"
    /\ district_chart' \in create_district_bar_chart(filtered_data)
    /\ pc' = "stats"
    /\ UNCHANGED app_vars
    /\ UNCHANGED <<fire_events_df, selected_districts, selected_years,
                   filtered_data, stats, yearly_data, monthly_data,
                   point, polygon, pip>>

GetStats ==
    /\ pc = "stats"
    /\ stats' = get_stats(filtered_data, None)
    /\ pc' = "yearly"
    /\ UNCHANGED app_vars
    /\ UNCHANGED <<fire_events_df, selected_districts, selected_years,
                   filtered_data, district_chart, yearly_data, monthly_data,
                   point, polygon, pip>>

GetYearlyData ==
    /\ pc = "yearly"
    /\ yearly_data' = get_yearly_data(filtered_data)
    /\ pc' = "monthly"
    /\ UNCHANGED app_vars
    /\ UNCHANGED <<fire_events_df, selected_districts, selected_years,
                   filtered_data, district_chart, stats, monthly_data,
                   point, polygon, pip>>

GetMonthlyData ==
    /\ pc = "monthly"
    /\ monthly_data' = get_monthly_data(filtered_data)
    /\ pc' = "rendered"
    /\ UNCHANGED app_vars
    /\ UNCHANGED <<fire_events_df, selected_districts, selected_years,
                   filtered_data, district_chart, stats, yearly_data,
                   point, polygon, pip>>

NextAggregate ==
    \/ CreateDistrictBarChart
    \/ GetStats
    \/ GetYearlyData
    \/ GetMonthlyData

SpecAggregate == InitAggregate /\ [][NextAggregate]_vars

(***************************************************************************)
(* Claims about the aggregates, checked under SpecAggregate.               *)
(***************************************************************************)
ChartDone == pc \in {"stats", "yearly", "monthly", "rendered"}

StatsDone == pc \in {"yearly", "monthly", "rendered"}

RECURSIVE SumCounts(_)
SumCounts(rows) ==
    IF rows = <<>> THEN 0 ELSE Head(rows).count + SumCounts(Tail(rows))

RowsWhere(df, P(_)) == Cardinality({i \in DOMAIN df : P(df[i])})

\* C4: for every event collection, the empty one included, total_events of
\* get_stats equals the number of events passed in.
C4_AggregateTotal ==
    StatsDone => stats.total_events = Cardinality(DOMAIN filtered_data)

C4_Witness ==
    /\ StatsDone
    /\ Len(filtered_data) = 3
    /\ filtered_data[1] = filtered_data[2]
    /\ Len(stats.yearly_counts) = 1
    /\ stats.total_events = 3

\* C5: the per-district counts sum to the total count and the per-year
\* counts sum to the total count; each event is counted in exactly one
\* district group and exactly one year group.
C5_AggregatePartition ==
    pc = "rendered" =>
        /\ SumCounts(district_chart) = stats.total_events
        /\ SumCounts(stats.yearly_counts) = stats.total_events
        /\ SumCounts(yearly_data) = stats.total_events
        /\ \A i \in DOMAIN filtered_data :
              /\ Cardinality({k \in DOMAIN district_chart :
                     district_chart[k].district = filtered_data[i].district}) = 1
              /\ Cardinality({k \in DOMAIN stats.yearly_counts :
                     stats.yearly_counts[k].year = filtered_data[i].year}) = 1
              /\ Cardinality({k \in DOMAIN yearly_data :
                     yearly_data[k].year = filtered_data[i].year}) = 1

C5_Witness ==
    /\ pc = "rendered"
    /\ Len(filtered_data) = 3
    /\ Len(district_chart) = 2
    /\ Len(stats.yearly_counts) = 2
    /\ \E i \in DOMAIN filtered_data : filtered_data[i].district = "Unknown"
    /\ SumCounts(district_chart) = 3
    /\ SumCounts(stats.yearly_counts) = 3

\* C6: aggregating an empty event collection yields total count 0, empty
\* year and month count tables, and "N/A" for peak_year and peak_month.
C6_EmptyAggregateSentinel ==
    (StatsDone /\ filtered_data = <<>>) =>
        /\ stats.total_events = 0
        /\ stats.yearly_counts = <<>>
        /\ stats.monthly_counts = <<>>
        /\ stats.peak_year = "N/A"
        /\ stats.peak_month = "N/A"

C6_Witness ==
    /\ pc = "rendered"
    /\ filtered_data = <<>>
    /\ stats.total_events = 0
    /\ stats.peak_year = "N/A"
    /\ stats.peak_month = "N/A"

\* C7: for a non-empty event collection peak_year is a year whose count is
\* the maximum over by_year, and of the years that tie for the maximum it is
\* the first in by_year's iteration order, which is ascending by year: the
\* lowest tied year.
C7_PeakYear ==
    (StatsDone /\ filtered_data # <<>>) =>
        LET by_year == stats.yearly_counts
            events_of(y) == RowsWhere(filtered_data, LAMBDA r : r.year = y)
        IN  /\ \A a, b \in DOMAIN by_year : a < b => by_year[a].year < by_year[b].year
            /\ \A k \in DOMAIN by_year : by_year[k].count = events_of(by_year[k].year)
            /\ \E k \in DOMAIN by_year :
                  /\ by_year[k].year = stats.peak_year
                  /\ \A j \in DOMAIN by_year : by_year[j].count <= by_year[k].count
                  /\ \A j \in DOMAIN by_year :
                        by_year[j].count = by_year[k].count => k <= j
            /\ \A i \in DOMAIN filtered_data :
                  LET y == filtered_data[i].year
                  IN  /\ events_of(y) <= events_of(stats.peak_year)
                      /\ events_of(y) = events_of(stats.peak_year) => stats.peak_year <= y

C7_Witness ==
    /\ StatsDone
    /\ Len(filtered_data) = 2
    /\ filtered_data[1].year = 2022
    /\ filtered_data[2].year = 2021
    /\ stats.peak_year = 2021

\* C8: for a non-empty event collection peak_month is the month_name of a
\* (month, month_name) group whose count is the maximum over by_month, and
\* of the months that tie it is the first in by_month's row order, which is
\* ascending by month number.
C8_PeakMonth ==
    (StatsDone /\ filtered_data # <<>>) =>
        LET by_month == stats.monthly_counts
            events_of(m) == RowsWhere(filtered_data, LAMBDA r : r.month = m)
        IN  /\ \A a, b \in DOMAIN by_month : a < b => by_month[a].month < by_month[b].month
            /\ \A k \in DOMAIN by_month :
                  /\ by_month[k].count = events_of(by_month[k].month)
                  /\ by_month[k].month_name = MonthName(by_month[k].month)
            /\ \E k \in DOMAIN by_month :
                  /\ by_month[k].month_name = stats.peak_month
                  /\ \A j \in DOMAIN by_month : by_month[j].count <= by_month[k].count
                  /\ \A j \in DOMAIN by_month :
                        by_month[j].count = by_month[k].count => k <= j

C8_Witness ==
    /\ StatsDone
    /\ Len(filtered_data) = 2
    /\ filtered_data[1].month = 11
    /\ filtered_data[2].month = 10
    /\ stats.peak_month = "Oct"

\* the position at which the group-by emits district d
EmissionRank(d) == CHOOSE k \in DOMAIN DistrictOrder : DistrictOrder[k] = d

\* one row per district present, holding the number of its events
IsDistrictCountTable(table, df) ==
    /\ \A k \in DOMAIN table :
          /\ table[k].count = RowsWhere(df, LAMBDA r : r.district = table[k].district)
          /\ table[k].count > 0
    /\ \A a, b \in DOMAIN table : table[a].district = table[b].district => a = b
    /\ \A i \in DOMAIN df : \E k \in DOMAIN table : table[k].district = df[i].district

\* C9 as stated: the by_district table is ordered by count descending, and
\* districts with equal counts keep the relative order in which the group-by
\* emitted them (the sort is stable).
C9_StableDescending ==
    ChartDone =>
        \A a, b \in DOMAIN district_chart : a < b =>
            \/ district_chart[a].count > district_chart[b].count
            \/ /\ district_chart[a].count = district_chart[b].count
               /\ EmissionRank(district_chart[a].district)
                    < EmissionRank(district_chart[b].district)

\* C9 as amended: the by_district table holds one row per district present
\* with the number of its events, ordered by count descending; the relative
\* order of districts with equal counts is not determined.
C9_DescendingByCount ==
    ChartDone =>
        /\ IsDistrictCountTable(district_chart, filtered_data)
        /\ \A a, b \in DOMAIN district_chart : a < b =>
              district_chart[a].count >= district_chart[b].count

C9_Witness ==
    /\ ChartDone
    /\ Len(filtered_data) = 3
    /\ Len(district_chart) = 2
    /\ district_chart[1].district = "Ludhiana"
    /\ district_chart[1].count = 2
    /\ district_chart[2].district = "Amritsar"
    /\ district_chart[2].count = 1

(***************************************************************************)
(* map_handler.point_in_polygon                                            *)
(***************************************************************************)
\* ring vertices <<x, y>> (x the longitude, y the latitude) and query points
Vertices == (0..2) \X (0..2)

Points == (0..3) \X (0..3)

Min(a, b) == IF a <= b THEN a ELSE b

Max(a, b) == IF a >= b THEN a ELSE b

\* x <= xinters, where xinters = (y - p1y) * (p2x - p1x) / (p2y - p1y) + p1x
\* and p1y # p2y.  The quotient is a true division; the comparison is made
\* exactly by multiplying it out with the sign of the divisor.
LeqXinters(x, y, p1x, p1y, p2x, p2y) ==
    LET num == (y - p1y) * (p2x - p1x)
        den == p2y - p1y
    IN  IF den > 0 THEN (x - p1x) * den <= num
                   ELSE (x - p1x) * den >= num

EdgeTogglesClosedMin_mut(x, y, p1, p2) ==
    /\ y >= Min(p1[2], p2[2])
    /\ y <= Max(p1[2], p2[2])
    /\ x <= Max(p1[1], p2[1])
    /\ p1[2] # p2[2]
    /\ (p1[1] = p2[1] \/ LeqXinters(x, y, p1[1], p1[2], p2[1], p2[2]))

\* the nested tests of the loop body: whether the edge p1 -> p2 flips inside
EdgeToggles(x, y, p1, p2) ==
    /\ y > Min(p1[2], p2[2])
    /\ y <= Max(p1[2], p2[2])
    /\ x <= Max(p1[1], p2[1])
    /\ p1[2] # p2[2]
    /\ (p1[1] = p2[1] \/ LeqXinters(x, y, p1[1], p1[2], p2[1], p2[2]))

\* for i in range(1, n + 1): p2 = polygon[i % n]; ...; p1 = p2
\* (polygon[k] of the code is poly[k + 1] here)
RECURSIVE PipLoop(_, _, _, _, _)
PipLoop(pt, poly, i, p1, inside) ==
    IF i > Len(poly) THEN inside
    ELSE LET p2 == poly[(i % Len(poly)) + 1]
         IN  PipLoop(pt, poly, i + 1, p2,
                     IF EdgeToggles(pt[1], pt[2], p1, p2) THEN ~inside ELSE inside)

\* the outcome of a call: the value returned, or the exception raised by
\* polygon[0] on an empty ring
point_in_polygon(pt, poly) ==
    IF Len(poly) = 0
    THEN [exc |-> "IndexError", inside |-> FALSE]
    ELSE [exc |-> "none", inside |-> PipLoop(pt, poly, 1, poly[1], FALSE)]

(***************************************************************************)
(* One call of point_in_polygon on one point and one ring.                 *)
(***************************************************************************)
InitGeometry ==
    /\ AppVarsUnset
    /\ point \in Points
    /\ polygon \in SeqsUpTo(Vertices, MaxRingLen)
    /\ pip = Unset
    /\ fire_events_df = Unset
    /\ selected_districts = Unset
    /\ selected_years = Unset
    /\ filtered_data = Unset
    /\ district_chart = Unset
    /\ stats = Unset
    /\ yearly_data = Unset
    /\ monthly_data = Unset
    /\ pc = "call"

PointInPolygon ==
    /\ pc = "call"
    /\ pip' = point_in_polygon(point, polygon)
    /\ pc' = IF pip'.exc = "none" THEN "returned" ELSE "raised"
    /\ UNCHANGED app_vars
    /\ UNCHANGED <<fire_events_df, selected_districts, selected_years,
                   filtered_data, district_chart, stats, yearly_data,
                   monthly_data, point, polygon>>

NextGeometry == PointInPolygon

SpecGeometry == InitGeometry /\ [][NextGeometry]_vars

(***************************************************************************)
(* Claims about point_in_polygon, checked under SpecGeometry.              *)
(***************************************************************************)
\* the edges of a ring: consecutive vertices, the last wrapping to the first
RingEdges(ring) == DOMAIN ring

EdgeFrom(ring, k) == ring[k]

EdgeTo(ring, k) == IF k = Len(ring) THEN ring[1] ELSE ring[k + 1]

\* the ray from <<x, y>> towards positive x crosses the edge a -> b: y lies
\* in the edge's half-open latitude span and x is at or left of the edge's
\* longitude at latitude y, a[1] + (y - a[2]) * (b[1] - a[1]) / (b[2] - a[2])
RayCrosses(x, y, a, b) ==
    /\ Min(a[2], b[2]) < y
    /\ y <= Max(a[2], b[2])
    /\ IF b[2] > a[2]
       THEN x * (b[2] - a[2]) <= a[1] * (b[2] - a[2]) + (y - a[2]) * (b[1] - a[1])
       ELSE x * (a[2] - b[2]) <= a[1] * (a[2] - b[2]) + (a[2] - y) * (b[1] - a[1])

Crossings(pt, ring) ==
    Cardinality({k \in RingEdges(ring) :
        RayCrosses(pt[1], pt[2], EdgeFrom(ring, k), EdgeTo(ring, k))})

Square == <<<<0, 0>>, <<0, 2>>, <<2, 2>>, <<2, 0>>>>

\* C10: point_in_polygon returns true exactly when the number of ring edges
\* crossed by the horizontal ray from the point towards positive x is odd;
\* for the square ring [(0,0),(0,2),(2,2),(2,0)] the point (1,1) is inside
\* and the point (3,3) is outside.
C10_RayCastingParity ==
    /\ pc = "returned" => (pip.inside <=> Crossings(point, polygon) % 2 = 1)
    /\ (pc # "call" /\ polygon = Square /\ point = <<1, 1>>)
          => (pc = "returned" /\ pip.inside)
    /\ (pc # "call" /\ polygon = Square /\ point = <<3, 3>>)
          => (pc = "returned" /\ ~pip.inside)

C10_Witness ==
    /\ pc = "returned"
    /\ polygon = Square
    /\ point = <<1, 1>>
    /\ Crossings(point, polygon) = 1
    /\ pip.inside

\* all vertices of the ring lie on one line, so the ring encloses no area
Collinear(ring) ==
    \A i, j, k \in DOMAIN ring :
        (ring[j][1] - ring[i][1]) * (ring[k][2] - ring[i][2])
            = (ring[k][1] - ring[i][1]) * (ring[j][2] - ring[i][2])

HasZeroLengthEdge(ring) ==
    \E k \in RingEdges(ring) : EdgeFrom(ring, k) = EdgeTo(ring, k)

\* a ring with 0, 1 or 2 points, or one with a zero-length edge that
\* encloses no area
DegenerateRing(ring) ==
    \/ Len(ring) <= 2
    \/ (HasZeroLengthEdge(ring) /\ Collinear(ring))

\* C11: for every point, point_in_polygon returns false and does not fail
\* when the ring is degenerate: a ring with 0, 1 or 2 points, or a ring with
\* zero-length edges (repeated consecutive vertices) that encloses no area.
C11_DegenerateRingFalse ==
    (pc # "call" /\ DegenerateRing(polygon)) => (pc = "returned" /\ ~pip.inside)

(***************************************************************************)
(* data_processor.load_fire_events                                         *)
(***************************************************************************)
MaxCsvRows == 3

\* a missing cell of the table (pandas' NaN) and an unparseable or missing
\* date after to_datetime(errors='coerce') (pandas' NaT)
NaN == "NaN"

NaT == <<0, 0, 0>>

\* the text of a date cell, as its <<year, month, day>> fields; a text that
\* names no calendar date is kept as the fields it shows
RawDates == {<<2021, 10, 5>>, <<2022, 11, 2>>, <<2021, 11, 31>>, NaT}

RawRows ==
    {[date |-> dt, district |-> d, lat |-> la, long |-> lo] :
        dt \in RawDates, d \in {"Amritsar", NaN},
        la \in {"31.6", NaN}, lo \in {"74.8", NaN}}

\* the event source: a table pandas can read, or a file read_csv fails on
MissingCsv == [kind |-> "missing", rows |-> <<>>]

UnparseableCsv == [kind |-> "unparseable", rows |-> <<>>]

CsvTable(rows) == [kind |-> "table", rows |-> rows]

DaysInMonth(y, m) ==
    IF m \in {4, 6, 9, 11} THEN 30
    ELSE IF m = 2 THEN (IF y % 4 = 0 /\ (y % 100 # 0 \/ y % 400 = 0) THEN 29 ELSE 28)
    ELSE 31

\* pd.to_datetime(text, errors='coerce'): the date, or NaT
to_datetime(text) ==
    IF /\ text[1] >= 1
       /\ text[2] \in 1..12
       /\ text[3] >= 1
       /\ text[3] <= DaysInMonth(text[1], text[2])
    THEN text
    ELSE NaT

MapRows(rows, F(_)) == [i \in DOMAIN rows |-> F(rows[i])]

\* df['district'].fillna('Unknown', inplace=True)
fillna_district(rows) ==
    MapRows(rows, LAMBDA r : [r EXCEPT !.district = IF @ = NaN THEN "Unknown" ELSE @])

\* df.dropna(subset=['date'])
dropna_date(rows) == SelectSeq(rows, LAMBDA r : r.date # NaT)

dropna_lat_long_district_mut(rows) ==
    SelectSeq(rows, LAMBDA r : r.lat # NaN /\ r.long # NaN /\ r.district # "Unknown")

\* df.dropna(subset=['lat', 'long'])
dropna_lat_long(rows) == SelectSeq(rows, LAMBDA r : r.lat # NaN /\ r.long # NaN)

\* the year, month and month_name columns taken from the date column
derive_date_parts(rows) ==
    MapRows(rows, LAMBDA r :
        [date |-> r.date, district |-> r.district, lat |-> r.lat, long |-> r.long,
         year |-> r.date[1], month |-> r.date[2], month_name |-> MonthName(r.date[2])])

\* the frame load_fire_events returns: the surviving rows, or the empty
\* frame when reading the file raised
load_fire_events(file) ==
    IF file.kind # "table" THEN <<>>
    ELSE LET filled == fillna_district(file.rows)
             dated == MapRows(filled, LAMBDA r : [r EXCEPT !.date = to_datetime(@)])
             valid == dropna_date(dated)
             derived == derive_date_parts(valid)
         IN  dropna_lat_long(derived)

(***************************************************************************)
(* One call of load_fire_events on one event source.                       *)
(***************************************************************************)
InitLoad ==
    /\ csv_file \in {MissingCsv, UnparseableCsv}
                      \cup {CsvTable(rows) : rows \in SeqsUpTo(RawRows, MaxCsvRows)}
    /\ fire_events_df = Unset
    /\ geojson_file = Unset
    /\ geojson_data = Unset
    /\ districts_dict = Unset
    /\ map_clicked = Unset
    /\ clicked_district = Unset
    /\ last_clicked = Unset
    /\ map_fire_data = Unset
    /\ map_bounds = Unset
    /\ run = Unset
    /\ selected_districts = Unset
    /\ selected_years = Unset
    /\ filtered_data = Unset
    /\ district_chart = Unset
    /\ stats = Unset
    /\ yearly_data = Unset
    /\ monthly_data = Unset
    /\ point = Unset
    /\ polygon = Unset
    /\ pip = Unset
    /\ pc = "load"

LoadFireEvents ==
    /\ pc = "load"
    /\ fire_events_df' = load_fire_events(csv_file)
    /\ pc' = "loaded"
    /\ UNCHANGED <<csv_file, geojson_file, geojson_data, districts_dict,
                   map_clicked, clicked_district, last_clicked, map_fire_data,
                   map_bounds, run, selected_districts, selected_years,
                   filtered_data, district_chart, stats, yearly_data,
                   monthly_data, point, polygon, pip>>

NextLoad == LoadFireEvents

SpecLoad == InitLoad /\ [][NextLoad]_vars

(***************************************************************************)
(* Claims about load_fire_events, checked under SpecLoad.                  *)
(***************************************************************************)
\* the date text names a day of the calendar
IsCalendarDate(text) ==
    \/ /\ text[2] \in {1, 3, 5, 7, 8, 10, 12} /\ text[3] \in 1..31 /\ text[1] > 0
    \/ /\ text[2] \in {4, 6, 9, 11} /\ text[3] \in 1..30 /\ text[1] > 0
    \/ /\ text[2] = 2 /\ text[3] \in 1..28 /\ text[1] > 0

SurvivingRows(rows) ==
    {i \in DOMAIN rows :
        IsCalendarDate(rows[i].date) /\ rows[i].lat # NaN /\ rows[i].long # NaN}

\* C15: load_fire_events returns, in input order, exactly the input rows
\* that have a parseable date and both lat and long present; every returned
\* row has district set ("Unknown" when absent in the source) and year,
\* month and month_name equal to the values derived from its date.  A row
\* whose district alone is missing is never dropped.
C15_LoadKeepsValidRows ==
    (pc = "loaded" /\ csv_file.kind = "table") =>
        LET rows == csv_file.rows
            kept == SurvivingRows(rows)
        IN  /\ DOMAIN fire_events_df = 1..Cardinality(kept)
            /\ \A i \in kept :
                  LET out == fire_events_df[Cardinality({j \in kept : j <= i})]
                  IN  /\ out.date = rows[i].date
                      /\ out.lat = rows[i].lat
                      /\ out.long = rows[i].long
                      /\ out.district = (IF rows[i].district = NaN THEN "Unknown"
                                         ELSE rows[i].district)
                      /\ out.district # NaN
                      /\ out.year = rows[i].date[1]
                      /\ out.month = rows[i].date[2]
                      /\ out.month_name = MonthName(rows[i].date[2])

C15_Witness ==
    /\ pc = "loaded"
    /\ csv_file.kind = "table"
    /\ Len(csv_file.rows) = 3
    /\ csv_file.rows[1].district = NaN
    /\ csv_file.rows[1].date = <<2022, 11, 2>>
    /\ csv_file.rows[2].date = <<2021, 11, 31>>
    /\ csv_file.rows[3].date = <<2021, 10, 5>>
    /\ csv_file.rows[3].district = "Amritsar"
    /\ Len(fire_events_df) = 2
    /\ fire_events_df[1].district = "Unknown"
    /\ fire_events_df[1].month_name = "Nov"
    /\ fire_events_df[2].year = 2021

(***************************************************************************)
(* data_processor.load_geojson and map_handler.zoom_to_districts           *)
(***************************************************************************)
MaxFeatures == 2

\* rings of <<lon, lat>> pairs, in hundredths of a degree
RingA == <<<<0, 0>>, <<0, 2>>, <<4, 2>>, <<4, 0>>>>

RingB == <<<<2, 0>>, <<2, 2>>, <<6, 2>>, <<6, 0>>>>

RingC == <<<<1, 1>>, <<1, 5>>, <<3, 5>>, <<3, 1>>>>

\* a GeoJSON geometry: a Polygon's coordinates are its rings, a
\* MultiPolygon's coordinates are its polygons, each a sequence of rings
Polygon(rings) == [type |-> "Polygon", coordinates |-> rings]

MultiPolygon(polygons) == [type |-> "MultiPolygon", coordinates |-> polygons]

\* a feature, with its properties.district and its geometry
Feature(name, geometry) == [district |-> name, geometry |-> geometry]

\* properties.district of a feature that has no such property
NoProperty == "<no property>"

\* the boundary source: a FeatureCollection, or a file that open or
\* json.load fails on
MissingGeojson == [kind |-> "missing", features |-> <<>>]

InvalidGeojson == [kind |-> "invalid_json", features |-> <<>>]

FeatureCollection(features) == [kind |-> "collection", features |-> features]

\* the first value load_geojson returns: the parsed document, or None
NoneData == [is_none |-> TRUE, features |-> <<>>]

Parsed(features) == [is_none |-> FALSE, features |-> features]

\* districts[district_name] = feature on a dict held as its items in
\* insertion order: a new key is appended, a known key keeps its place and
\* takes the new value
DictPut(items, key, value) ==
    IF \E k \in DOMAIN items : items[k].key = key
    THEN [k \in DOMAIN items |->
            IF items[k].key = key THEN [key |-> key, value |-> value] ELSE items[k]]
    ELSE Append(items, [key |-> key, value |-> value])

RECURSIVE BuildDistricts(_, _, _)
BuildDistricts(features, k, items) ==
    IF k > Len(features) THEN items
    ELSE BuildDistricts(features, k + 1,
                        DictPut(items, features[k].district, features[k]))

\* the pair load_geojson returns; any exception inside the try block (the
\* file cannot be opened or parsed, a feature lacks properties.district)
\* gives (None, {})
load_geojson(file) ==
    IF \/ file.kind # "collection"
       \/ \E k \in DOMAIN file.features : file.features[k].district = NoProperty
    THEN [geojson_data |-> NoneData, districts |-> <<>>]
    ELSE [geojson_data |-> Parsed(file.features),
          districts |-> BuildDistricts(file.features, 1, <<>>)]

\* padding = 0.05, in hundredths of a degree
Padding == 5

RECURSIVE Flatten(_)
Flatten(seqs) == IF seqs = <<>> THEN <<>> ELSE Head(seqs) \o Flatten(Tail(seqs))

all_rings_coords_mut(geometry) ==
    IF geometry.type = "Polygon" THEN Flatten(geometry.coordinates)
    ELSE IF geometry.type = "MultiPolygon"
    THEN Flatten([k \in DOMAIN geometry.coordinates |-> Flatten(geometry.coordinates[k])])
    ELSE <<>>

\* the coordinates one selected feature adds to all_coords: ring 0 of a
\* Polygon, ring 0 of each polygon of a MultiPolygon
feature_coords(geometry) ==
    IF geometry.type = "Polygon" THEN geometry.coordinates[1]
    ELSE IF geometry.type = "MultiPolygon"
    THEN Flatten([k \in DOMAIN geometry.coordinates |-> geometry.coordinates[k][1]])
    ELSE <<>>

SetMin(S) == CHOOSE x \in S : \A y \in S : x <= y

SetMax(S) == CHOOSE x \in S : \A y \in S : x >= y

\* no fit_bounds call: the map keeps its view
NoBounds == [fitted |-> FALSE, min_lat |-> 0, min_lon |-> 0, max_lat |-> 0, max_lon |-> 0]

\* the extrema of the coordinates, widened by the padding on every side
PaddedBox(coords) ==
    LET lats == {coords[k][2] : k \in DOMAIN coords}
        lons == {coords[k][1] : k \in DOMAIN coords}
    IN  [fitted |-> TRUE,
         min_lat |-> SetMin(lats) - Padding, min_lon |-> SetMin(lons) - Padding,
         max_lat |-> SetMax(lats) + Padding, max_lon |-> SetMax(lons) + Padding]

\* the box zoom_to_districts hands to m.fit_bounds, or NoBounds when it
\* returns the map as it is
zoom_to_districts(data, sel_districts) ==
    IF ~Truthy(sel_districts) THEN NoBounds
    ELSE LET features == data.features
             all_coords ==
                 Flatten([k \in DOMAIN features |->
                     IF features[k].district \in sel_districts.items
                     THEN feature_coords(features[k].geometry)
                     ELSE <<>>])
         IN  IF all_coords = <<>> THEN NoBounds ELSE PaddedBox(all_coords)

(***************************************************************************)
(* One call of zoom_to_districts on one boundary document and one          *)
(* selection.                                                              *)
(***************************************************************************)
ZoomGeometries ==
    {Polygon(<<RingA>>), Polygon(<<RingA, RingC>>),
     MultiPolygon(<<<<RingA>>, <<RingB>>>>), MultiPolygon(<<<<RingB, RingC>>>>)}

ZoomFeatures ==
    {Feature(n, g) : n \in {"Amritsar", "Ludhiana"}, g \in ZoomGeometries}

InitZoom ==
    /\ geojson_data \in {Parsed(fs) : fs \in SeqsUpTo(ZoomFeatures, MaxFeatures)}
    /\ selected_districts \in Selections({"Amritsar", "Ludhiana"})
    /\ map_bounds = Unset
    /\ geojson_file = Unset
    /\ csv_file = Unset
    /\ districts_dict = Unset
    /\ map_clicked = Unset
    /\ clicked_district = Unset
    /\ last_clicked = Unset
    /\ map_fire_data = Unset
    /\ run = Unset
    /\ fire_events_df = Unset
    /\ selected_years = Unset
    /\ filtered_data = Unset
    /\ district_chart = Unset
    /\ stats = Unset
    /\ yearly_data = Unset
    /\ monthly_data = Unset
    /\ point = Unset
    /\ polygon = Unset
    /\ pip = Unset
    /\ pc = "zoom"

ZoomToDistricts ==
    /\ pc = "zoom"
    /\ map_bounds' = zoom_to_districts(geojson_data, selected_districts)
    /\ pc' = "zoomed"
    /\ UNCHANGED <<geojson_data, selected_districts, geojson_file, csv_file,
                   districts_dict, map_clicked, clicked_district, last_clicked,
                   map_fire_data, run, fire_events_df, selected_years,
                   filtered_data, district_chart, stats, yearly_data,
                   monthly_data, point, polygon, pip>>

NextZoom == ZoomToDistricts

SpecZoom == InitZoom /\ [][NextZoom]_vars

(***************************************************************************)
(* Claims about zoom_to_districts, checked under SpecZoom.                 *)
(***************************************************************************)
\* the <<lon, lat>> pairs of the rings Pick chooses from the polygons of the
\* selected features; a Polygon is one polygon, a MultiPolygon several
SelectedPairs(data, sel, Pick(_)) ==
    UNION {
        LET g == data.features[k].geometry
            polygons == IF g.type = "Polygon" THEN {g.coordinates}
                        ELSE {g.coordinates[j] : j \in DOMAIN g.coordinates}
        IN  UNION {{poly[r][v] : v \in DOMAIN poly[r]} :
                       <<poly, r>> \in {pr \in polygons \X (1..2) :
                                           pr[2] \in Pick(pr[1])}}
        : k \in {j \in DOMAIN data.features : data.features[j].district \in sel.items}}

AllRingsOf(poly) == DOMAIN poly

OuterRingOf(poly) == {1}

\* the box is the extrema of the pairs, widened by the padding
IsPaddedBoxOf(box, pairs) ==
    /\ box.fitted
    /\ \E p \in pairs : box.min_lat = p[2] - Padding
    /\ \E p \in pairs : box.max_lat = p[2] + Padding
    /\ \E p \in pairs : box.min_lon = p[1] - Padding
    /\ \E p \in pairs : box.max_lon = p[1] + Padding
    /\ \A p \in pairs :
          /\ box.min_lat <= p[2] - Padding /\ p[2] + Padding <= box.max_lat
          /\ box.min_lon <= p[1] - Padding /\ p[1] + Padding <= box.max_lon

\* C14 as stated: the bounding box used to zoom to the selected districts is
\* the extrema taken over the coordinates of ALL rings of every selected
\* Polygon and of all polygons of every selected MultiPolygon.
C14_BoxOverAllRings ==
    (pc = "zoomed" /\ map_bounds.fitted) =>
        IsPaddedBoxOf(map_bounds,
                      SelectedPairs(geojson_data, selected_districts, AllRingsOf))

\* C14 as amended: the box handed to fit_bounds is the extrema, widened by
\* the 0.05 padding, over the coordinates of the outer ring (ring 0) only of
\* every selected Polygon and of every polygon of every selected
\* MultiPolygon; inner rings are not read.
C14_BoxOverOuterRings ==
    (pc = "zoomed" /\ map_bounds.fitted) =>
        IsPaddedBoxOf(map_bounds,
                      SelectedPairs(geojson_data, selected_districts, OuterRingOf))

C14_Witness ==
    /\ pc = "zoomed"
    /\ selected_districts = ListOf({"Amritsar", "Ludhiana"})
    /\ Len(geojson_data.features) = 2
    /\ geojson_data.features[1] = Feature("Amritsar", Polygon(<<RingA, RingC>>))
    /\ geojson_data.features[2] = Feature("Ludhiana", MultiPolygon(<<<<RingA>>, <<RingB>>>>))
    /\ map_bounds = [fitted |-> TRUE, min_lat |-> 0 - Padding, min_lon |-> 0 - Padding,
                     max_lat |-> 2 + Padding, max_lon |-> 6 + Padding]

(***************************************************************************)
(* app.main: one run of the dashboard script.                              *)
(***************************************************************************)
\* map_data["last_clicked"]: None, or the point last clicked on the map
NoClick == [is_none |-> TRUE, lat |-> 0, lng |-> 0]

Click(lat, lng) == [is_none |-> FALSE, lat |-> lat, lng |-> lng]

\* point_in_polygon handed a polygon of a MultiPolygon, a list of rings:
\* polygon[0] raises IndexError on no rings; `p1x, p1y = polygon[0]` unpacks
\* a ring and raises ValueError unless the ring has exactly two points, and
\* then `y > min(p1y, p2y)` compares a number with a list, a TypeError
point_in_polygon_of_rings(pt, rings) ==
    IF rings = <<>> THEN [exc |-> "IndexError", inside |-> FALSE]
    ELSE IF Len(rings[1]) # 2 THEN [exc |-> "ValueError", inside |-> FALSE]
    ELSE [exc |-> "TypeError", inside |-> FALSE]

\* mh.point_in_polygon((lng, lat), feature["geometry"]["coordinates"][0])
contains_click(geometry, pt) ==
    IF geometry.coordinates = <<>> THEN [exc |-> "IndexError", inside |-> FALSE]
    ELSE IF geometry.type = "Polygon"
    THEN point_in_polygon(pt, geometry.coordinates[1])
    ELSE point_in_polygon_of_rings(pt, geometry.coordinates[1])

\* the loop over districts_dict.items() that finds the clicked district,
\* from item k on: the exception it raises, or the name it found or None
RECURSIVE find_clicked_district(_, _, _)
find_clicked_district(items, k, click) ==
    IF k > Len(items) THEN [exc |-> "none", district |-> None]
    ELSE LET district_name == items[k].key
             feature == items[k].value
         IN  IF district_name = "Unknown" \/ district_name = ""
             THEN find_clicked_district(items, k + 1, click)
             ELSE LET hit == contains_click(feature.geometry, <<click.lng, click.lat>>)
                  IN  IF hit.exc # "none" THEN [exc |-> hit.exc, district |-> None]
                      ELSE IF hit.inside THEN [exc |-> "none", district |-> district_name]
                      ELSE find_clicked_district(items, k + 1, click)

\* fire_events_df.query('year.isin(@st.session_state.selected_years)')
query_year_isin(df, sel_years) == SelectSeq(df, LAMBDA r : r.year \in sel_years.items)

\* the box render_map leaves the map fitted to
render_map(data, sel_districts) ==
    IF Truthy(sel_districts) THEN zoom_to_districts(data, sel_districts) ELSE NoBounds

get_district_list(df) == SortDistricts({df[i].district : i \in DOMAIN df})

get_year_list(df) == SortAsc({df[i].year : i \in DOMAIN df})

load_failed_both_mut(data, df) == data.is_none /\ df = <<>>

\* geojson_data is None or fire_events_df.empty
load_failed(data, df) == data.is_none \/ df = <<>>

\* what one run did: the event that started it, how it ended, the exception
\* that ended it, whether the click lookup ran and what it found, and
\* whether the run reached the map, the filter and the aggregations
RunRecord(event, outcome, exc, looked_up, found, rendered, filtered, aggregated) ==
    [event |-> event, outcome |-> outcome, exc |-> exc, looked_up |-> looked_up,
     found |-> found, rendered |-> rendered, filtered |-> filtered,
     aggregated |-> aggregated]

\* main from the map on, for a session holding map_clicked = mc,
\* clicked_district = cd, selected_districts = sd and selected_years = sy,
\* with the map component reporting lc and the two multiselects returning
\* year_selection and district_selection (each returns the session's list,
\* its default, unless the user has just changed it)
main_body(event, mc, cd, sd, sy, data, dict, df, lc, year_selection, district_selection) ==
    LET looked_up == ~lc.is_none /\ ~mc
        found == IF looked_up THEN find_clicked_district(dict, 1, lc)
                 ELSE [exc |-> "none", district |-> None]
        filtered == filter_data(df, sd, sy)
    IN  /\ last_clicked' = lc
        /\ map_fire_data' = query_year_isin(df, sy)
        /\ map_bounds' = render_map(data, sd)
        /\ map_clicked' = ~lc.is_none
        /\ IF found.exc # "none"
           THEN /\ clicked_district' = cd
                /\ selected_districts' = sd
                /\ selected_years' = sy
                /\ UNCHANGED <<filtered_data, district_chart, stats, yearly_data, monthly_data>>
                /\ run' = RunRecord(event, "raised", found.exc, looked_up, None,
                                    TRUE, FALSE, FALSE)
                /\ pc' = "raised"
           ELSE IF found.district # None
           THEN /\ clicked_district' = found.district
                /\ selected_districts' =
                       IF found.district \in sd.items
                       THEN ListOf(sd.items \ {found.district})
                       ELSE ListOf(sd.items \cup {found.district})
                /\ selected_years' = sy
                /\ UNCHANGED <<filtered_data, district_chart, stats, yearly_data, monthly_data>>
                /\ run' = RunRecord(event, "rerun", "none", looked_up, found.district,
                                    TRUE, FALSE, FALSE)
                /\ pc' = "rerun"
           ELSE /\ clicked_district' = cd
                /\ filtered_data' = filtered
                /\ district_chart' \in create_district_bar_chart(filtered)
                /\ IF year_selection # sy
                   THEN /\ selected_years' = year_selection
                        /\ selected_districts' = sd
                        /\ UNCHANGED <<stats, yearly_data, monthly_data>>
                        /\ run' = RunRecord(event, "rerun", "none", looked_up, None,
                                            TRUE, TRUE, FALSE)
                        /\ pc' = "rerun"
                   ELSE IF district_selection # sd
                   THEN /\ selected_years' = sy
                        /\ selected_districts' = district_selection
                        /\ UNCHANGED <<stats, yearly_data, monthly_data>>
                        /\ run' = RunRecord(event, "rerun", "none", looked_up, None,
                                            TRUE, TRUE, FALSE)
                        /\ pc' = "rerun"
                   ELSE /\ selected_years' = sy
                        /\ selected_districts' = sd
                        /\ stats' = get_stats(filtered, None)
                        /\ yearly_data' = get_yearly_data(filtered)
                        /\ monthly_data' = get_monthly_data(filtered)
                        /\ run' = RunRecord(event, "complete", "none", looked_up, None,
                                            TRUE, TRUE, TRUE)
                        /\ pc' = "idle"

\* the first run of a session: the session state is initialised, load_data
\* reads both sources, and main stops at the error message when either
\* failed
FirstRun ==
    /\ pc = "start"
    /\ LET loaded == load_geojson(geojson_file)
           df == load_fire_events(csv_file)
       IN  /\ geojson_data' = loaded.geojson_data
           /\ districts_dict' = loaded.districts
           /\ fire_events_df' = df
           /\ IF load_failed(loaded.geojson_data, df)
              THEN /\ map_clicked' = FALSE
                   /\ clicked_district' = None
                   /\ run' = RunRecord("first", "error_shown", "none", FALSE, None,
                                       FALSE, FALSE, FALSE)
                   /\ pc' = "failed"
                   /\ UNCHANGED <<selected_districts, selected_years, last_clicked,
                                  map_fire_data, map_bounds, filtered_data,
                                  district_chart, stats, yearly_data, monthly_data>>
              ELSE LET years == ListOf({df[i].year : i \in DOMAIN df})
                   IN  main_body("first", FALSE, None, ListOf({}), years,
                                 loaded.geojson_data, loaded.districts, df,
                                 NoClick, years, ListOf({}))
    /\ UNCHANGED <<geojson_file, csv_file, point, polygon, pip>>

\* a later run of the same session over the cached data
LaterRun(event, lc, year_selection, district_selection) ==
    /\ main_body(event, map_clicked, clicked_district, selected_districts,
                 selected_years, geojson_data, districts_dict, fire_events_df,
                 lc, year_selection, district_selection)
    /\ UNCHANGED <<geojson_file, csv_file, geojson_data, districts_dict,
                   fire_events_df, point, polygon, pip>>

\* the user clicks the map: the component reports the point and the script
\* runs
MapClick(c) ==
    /\ pc = "idle"
    /\ LaterRun("click", c, selected_years, selected_districts)

\* st.rerun(): the script runs again, nothing new from the user
Rerun ==
    /\ pc = "rerun"
    /\ LaterRun("rerun", last_clicked, selected_years, selected_districts)

\* the user changes the year multiselect to the years S
ChangeYears(S) ==
    /\ pc = "idle"
    /\ S \subseteq {get_year_list(fire_events_df)[i] : i \in DOMAIN get_year_list(fire_events_df)}
    /\ ListOf(S) # selected_years
    /\ LaterRun("years", last_clicked, ListOf(S), selected_districts)

\* the user changes the district multiselect to the districts S
ChangeDistricts(S) ==
    /\ pc = "idle"
    /\ S \subseteq {get_district_list(fire_events_df)[i] :
                       i \in DOMAIN get_district_list(fire_events_df)}
    /\ ListOf(S) # selected_districts
    /\ LaterRun("districts", last_clicked, selected_years, ListOf(S))

\* the map component is mounted afresh and reports no click
MapReportsNoClick ==
    /\ pc = "idle"
    /\ ~last_clicked.is_none
    /\ LaterRun("no_click", NoClick, selected_years, selected_districts)

\* clicks at latitude 1: inside RingA only, inside RingA and RingB, inside
\* RingB only, outside both
Clicks == {Click(1, lng) : lng \in {1, 3, 5, 7}}

EventRow(date, district) ==
    [date |-> date, district |-> district, lat |-> "31.6", long |-> "74.8"]

EventsCsv ==
    CsvTable(<<EventRow(<<2021, 10, 5>>, "Amritsar"),
               EventRow(<<2021, 11, 2>>, "Amritsar"),
               EventRow(<<2022, 11, 2>>, "Amritsar"),
               EventRow(<<2021, 10, 5>>, "Ludhiana"),
               EventRow(<<2022, 11, 2>>, "Ludhiana"),
               EventRow(<<2022, 11, 2>>, NaN)>>)

(***************************************************************************)
(* The session: any sequence of clicks and filter changes over a handful   *)
(* of sources, the failing ones among them.                                *)
(***************************************************************************)
AppGeojsonFiles ==
    {MissingGeojson, InvalidGeojson,
     FeatureCollection(<<Feature(NoProperty, Polygon(<<RingA>>))>>),
     FeatureCollection(<<Feature("Amritsar", Polygon(<<RingA>>)),
                         Feature("Ludhiana", Polygon(<<RingB>>)),
                         Feature("Unknown", Polygon(<<RingC>>))>>)}

AppCsvFiles == {MissingCsv, UnparseableCsv, CsvTable(<<>>), EventsCsv}

SessionStart ==
    /\ fire_events_df = Unset
    /\ selected_districts = Unset
    /\ selected_years = Unset
    /\ filtered_data = Unset
    /\ district_chart = Unset
    /\ stats = Unset
    /\ yearly_data = Unset
    /\ monthly_data = Unset
    /\ point = Unset
    /\ polygon = Unset
    /\ pip = Unset
    /\ geojson_data = Unset
    /\ districts_dict = Unset
    /\ map_clicked = Unset
    /\ clicked_district = Unset
    /\ last_clicked = Unset
    /\ map_fire_data = Unset
    /\ map_bounds = Unset
    /\ run = Unset
    /\ pc = "start"

InitApp ==
    /\ geojson_file \in AppGeojsonFiles
    /\ csv_file \in AppCsvFiles
    /\ SessionStart

NextApp ==
    \/ FirstRun
    \/ \E c \in Clicks : MapClick(c)
    \/ Rerun
    \/ \E S \in SUBSET Years : ChangeYears(S)
    \/ \E S \in SUBSET Districts : ChangeDistricts(S)
    \/ MapReportsNoClick

SpecApp == InitApp /\ [][NextApp]_vars

(***************************************************************************)
(* The click lookup: the first clicks of a session over every boundary     *)
(* collection of up to MaxFeatures features.                               *)
(***************************************************************************)
LocateGeometries ==
    {Polygon(<<RingA>>), Polygon(<<RingB>>), Polygon(<<<<>>>>),
     MultiPolygon(<<<<RingA>>>>)}

LocateFeatures ==
    {Feature(n, g) : n \in {"Amritsar", "Ludhiana", "Unknown", ""},
                     g \in LocateGeometries}

InitLocate ==
    /\ geojson_file \in {FeatureCollection(fs) : fs \in SeqsUpTo(LocateFeatures, MaxFeatures)}
    /\ csv_file = EventsCsv
    /\ SessionStart

NextLocate ==
    \/ FirstRun
    \/ \E c \in Clicks : MapClick(c)
    \/ Rerun

SpecLocate == InitLocate /\ [][NextLocate]_vars

(***************************************************************************)
(* Claims about the click lookup, checked under SpecLocate.                *)
(***************************************************************************)
\* the outer rings of a boundary: ring 0 of a Polygon, ring 0 of each
\* polygon of a MultiPolygon
OuterRings(geometry) ==
    IF geometry.type = "Polygon"
    THEN {geometry.coordinates[k] : k \in DOMAIN geometry.coordinates \cap {1}}
    ELSE {geometry.coordinates[k][1] : k \in DOMAIN geometry.coordinates}

\* the clicked point lies inside an outer ring of the boundary, by the
\* parity of the edges the ray from it crosses
BoundaryContains(geometry, click) ==
    \E ring \in OuterRings(geometry) :
        Crossings(<<click.lng, click.lat>>, ring) % 2 = 1

\* the records of the collection that are not skipped and contain the click
Matches(items, click) ==
    {k \in DOMAIN items :
        /\ items[k].key \notin {"Unknown", ""}
        /\ BoundaryContains(items[k].value.geometry, click)}

FirstMatch(items, click) == items[SetMin(Matches(items, click))].key

\* every ring of every boundary of the collection has at least three points
WellFormedRings(items) ==
    \A k \in DOMAIN items :
        LET g == items[k].value.geometry
        IN  IF g.type = "Polygon"
            THEN g.coordinates # <<>> /\ \A r \in DOMAIN g.coordinates : Len(g.coordinates[r]) >= 3
            ELSE /\ g.coordinates # <<>>
                 /\ \A j \in DOMAIN g.coordinates :
                       /\ g.coordinates[j] # <<>>
                       /\ \A r \in DOMAIN g.coordinates[j] : Len(g.coordinates[j][r]) >= 3

\* C12: the click lookup goes through the boundary records in insertion
\* order, skips the records named "Unknown" or empty, and returns the first
\* record whose outer ring contains the clicked point; with A inserted
\* before B and both containing the point, the result is A.
C12_FirstMatchWins ==
    /\ (pc # "start" /\ run.looked_up /\ Matches(districts_dict, last_clicked) # {})
          => (run.exc = "none" /\ run.found = FirstMatch(districts_dict, last_clicked))
    /\ (/\ pc # "start"
        /\ run.looked_up
        /\ Len(districts_dict) = 2
        /\ districts_dict[1].key = "Amritsar"
        /\ districts_dict[2].key = "Ludhiana"
        /\ BoundaryContains(districts_dict[1].value.geometry, last_clicked)
        /\ BoundaryContains(districts_dict[2].value.geometry, last_clicked))
          => run.found = "Amritsar"

\* C13: a click outside every district boundary finds no district without
\* raising, and changes nothing of the selection: selected_districts,
\* selected_years and clicked_district keep their values and no rerun is
\* asked for.
C13_NoMatchIsNoOp ==
    [][(/\ pc = "idle"
        /\ run'.event = "click"
        /\ \A k \in DOMAIN districts_dict :
              ~BoundaryContains(districts_dict[k].value.geometry, last_clicked'))
          => (/\ run'.outcome # "raised"
              /\ run'.found = None
              /\ selected_districts' = selected_districts
              /\ selected_years' = selected_years
              /\ clicked_district' = clicked_district
              /\ pc' # "rerun")]_vars

\* C19: over a collection of Polygon and MultiPolygon boundaries the click
\* lookup ends with a district name or with no match and never raises; the
\* containment test of a MultiPolygon record is run on a ring of
\* (lon, lat) pairs.
C19_LookupNeverRaises ==
    (pc # "start" /\ run.looked_up /\ WellFormedRings(districts_dict))
        => (run.outcome # "raised" /\ run.exc = "none")

(***************************************************************************)
(* Claims about the session, checked under SpecApp.                        *)
(***************************************************************************)
\* C16: a source that cannot be read or parsed raises nothing: load_geojson
\* returns None with an empty boundary collection, load_fire_events returns
\* an empty frame, and in either case main shows the error message and
\* stops before the map, the filter and the aggregations.
C16_LoadFailureStopsMain ==
    pc # "start" =>
        /\ geojson_file.kind # "collection"
              => (geojson_data = NoneData /\ districts_dict = <<>>)
        /\ csv_file.kind # "table" => fire_events_df = <<>>
        /\ (geojson_file.kind # "collection" \/ csv_file.kind # "table")
              => /\ pc = "failed"
                 /\ run.outcome = "error_shown"
                 /\ run.exc = "none"
                 /\ ~run.rendered
                 /\ ~run.filtered
                 /\ ~run.aggregated

C16_Witness ==
    /\ pc = "failed"
    /\ geojson_file = InvalidGeojson
    /\ csv_file = EventsCsv
    /\ Len(fire_events_df) = 6
    /\ geojson_data = NoneData
    /\ run.outcome = "error_shown"

\* C17: whatever the user did before, every map click at a point inside a
\* valid district toggles that district in selected_districts, added if
\* absent and removed if present; also the click that follows another
\* click, when the map still reports a last_clicked and map_clicked is
\* still set.
C17_EveryClickToggles ==
    [][(/\ pc = "idle"
        /\ run'.event = "click"
        /\ last_clicked' # last_clicked
        /\ Matches(districts_dict, last_clicked') # {})
          => LET d == FirstMatch(districts_dict, last_clicked')
             IN  (d \in selected_districts'.items) <=> (d \notin selected_districts.items)]_vars

\* C18: whenever a run has completed, the events on the map are the events
\* filter_data keeps for no district selection and the selected years; with
\* no year selected the map shows all events, as the charts do.
C18_MapMatchesCharts ==
    pc = "idle" =>
        map_fire_data = filter_data(fire_events_df, NoneSel, selected_years)

=============================================================================
